---- MODULE Spec2Model ----
(***************************************************************************)
(* Model of the DHT11 temperature / humidity monitor sketch                *)
(* (src/src/main.cpp; src/unnamed/part_000 is the same sketch as main.ino).*)
(*                                                                         *)
(* The sketch is the Arduino pair setup() / loop(): the core calls setup() *)
(* once and then loop() for ever.  Every statement of the two functions is *)
(* one action, and pc is the statement about to run.                       *)
(*                                                                         *)
(* A float is the record [nan, centi]: nan says the value is NaN, centi is *)
(* the value in hundredths (55.0 is 5500).  The sensor reports tenths, so   *)
(* hundredths cover its values; a value with more decimals is not a value  *)
(* of the model.  The text a print call writes is a string; the serial     *)
(* output is the sequence of the strings written.                          *)
(***************************************************************************)
EXTENDS Integers, Sequences, FiniteSets, TLC

VARIABLES
    pc,           \* the statement about to run
    serialBaud,   \* baud rate of the serial port, 0 while it is not opened
    serialBegins, \* number of Serial.begin calls so far
    dhtBegins,    \* number of dht.begin calls so far
    sensed,       \* what the sensor returned to the two reads of this iteration
    humidity,     \* loop()'s local humidity
    temperature,  \* loop()'s local temperature
    out,          \* the serial output of setup() and of the first MaxIter iterations
    line,         \* the serial output of the current call of setup() or loop()
    waits,        \* the delay() durations of the current call, in call order
    trace,        \* the steps of the current call of loop(), in order
    iter          \* completed calls of loop(), counted up to MaxIter

vars == <<pc, serialBaud, serialBegins, dhtBegins, sensed, humidity,
          temperature, out, line, waits, trace, iter>>

-----------------------------------------------------------------------------
(* Bounds and program constants *)

\* Number of iterations whose output is kept in out; the loop itself goes on.
MaxIter == 2

\* Serial.begin(9600)
BAUD == 9600

\* delay(2000) of the error path
ERR_DELAY_MS == 2000

\* delay(2000) of the success path
OK_DELAY_MS == 2000

-----------------------------------------------------------------------------
(* Floats *)

NaN == [nan |-> TRUE, centi |-> 0]

\* The float nearest to c / 100.
F(c) == [nan |-> FALSE, centi |-> c]

isnan(x) == x.nan

\* Values the sensor can hand to readHumidity(): a failed read, 55.0, 40.13
HumidityValues == {NaN, F(5500), F(4013)}

\* Values the sensor can hand to readTemperature(): a failed read, 22.0, -3.46, 7.0
TemperatureValues == {NaN, F(2200), F(-346), F(700)}

-----------------------------------------------------------------------------
(* Text *)

CRLF == "\r\n"

StartupLine == "DHT11 OK"

ErrorLine == "Humidity or temperature read error"

Digit(d) == <<"0", "1", "2", "3", "4", "5", "6", "7", "8", "9">>[d + 1]

RECURSIVE NatToStr(_)
NatToStr(n) == IF n < 10 THEN Digit(n) ELSE NatToStr(n \div 10) \o Digit(n % 10)

\* Serial.print(float): the Arduino core prints two decimals.  It writes "nan"
\* for NaN, a '-' and the magnitude for a negative value, adds 0.005, prints
\* the integer part, a '.', and the next two digits of the remainder.
\* rounded is the sum in thousandths.  The core computes in binary floating
\* point; on a value of whole hundredths the sum lies 0.005 from the nearest
\* digit boundary, which the binary error (below 0.0001 up to 30000.00)
\* never crosses, in 32-bit and in 64-bit arithmetic alike, so the digits
\* are those of the decimal sum.
PrintFloat(x) ==
    IF isnan(x) THEN "nan"
    ELSE LET neg      == x.centi < 0
             mag      == IF neg THEN 0 - x.centi ELSE x.centi
             rounded  == 10 * mag + 5
             int_part == rounded \div 1000
             rem      == rounded % 1000
         IN  (IF neg THEN "-" ELSE "")
             \o NatToStr(int_part) \o "."
             \o Digit(rem \div 100) \o Digit((rem % 100) \div 10)

\* Serial.print((int) x): the value truncated, without decimals.
PrintAsInt(x) ==
    IF isnan(x) THEN "0"
    ELSE IF x.centi < 0 THEN "-" \o NatToStr((0 - x.centi) \div 100)
    ELSE NatToStr(x.centi \div 100)

RECURSIVE Concat(_)
Concat(s) == IF s = <<>> THEN "" ELSE Head(s) \o Concat(Tail(s))

\* Serial.print / Serial.println write to the port: toks are the strings written.
Emit(toks) ==
    /\ line' = line \o toks
    /\ out' = IF iter < MaxIter THEN out \o toks ELSE out

\* A call of loop() returns: one more iteration is complete.
Return ==
    /\ pc' = "readH"
    /\ iter' = IF iter < MaxIter THEN iter + 1 ELSE iter

-----------------------------------------------------------------------------
(* State after construction: dht(DHTPIN, DHTTYPE) is built, nothing has run *)

Init ==
    /\ pc = "serialBegin"
    /\ serialBaud = 0
    /\ serialBegins = 0
    /\ dhtBegins = 0
    /\ sensed = [humidity |-> NaN, temperature |-> NaN]
    /\ humidity = NaN
    /\ temperature = NaN
    /\ out = <<>>
    /\ line = <<>>
    /\ waits = <<>>
    /\ trace = <<>>
    /\ iter = 0

-----------------------------------------------------------------------------
(* setup() *)

\* Serial.begin(9600) left out
SetupSerialBeginForgotten ==
    /\ pc = "serialBegin"
    /\ pc' = "dhtBegin"
    /\ UNCHANGED <<serialBaud, serialBegins, dhtBegins, sensed, humidity,
                   temperature, out, line, waits, trace, iter>>

\* Serial.begin(9600);
SetupSerialBegin ==
    /\ pc = "serialBegin"
    /\ serialBaud' = BAUD
    /\ serialBegins' = serialBegins + 1
    /\ pc' = "dhtBegin"
    /\ UNCHANGED <<dhtBegins, sensed, humidity, temperature, out, line,
                   waits, trace, iter>>

\* dht.begin();
SetupDhtBegin ==
    /\ pc = "dhtBegin"
    /\ dhtBegins' = dhtBegins + 1
    /\ pc' = "startupPrintln"
    /\ UNCHANGED <<serialBaud, serialBegins, sensed, humidity, temperature,
                   out, line, waits, trace, iter>>

\* the startup line left out
SetupPrintlnSilent ==
    /\ pc = "startupPrintln"
    /\ pc' = "readH"
    /\ UNCHANGED <<serialBaud, serialBegins, dhtBegins, sensed, humidity,
                   temperature, out, line, waits, trace, iter>>

\* Serial.println("DHT11 OK");  setup() returns and the core starts calling loop()
SetupPrintln ==
    /\ pc = "startupPrintln"
    /\ Emit(<<StartupLine, CRLF>>)
    /\ pc' = "readH"
    /\ UNCHANGED <<serialBaud, serialBegins, dhtBegins, sensed, humidity,
                   temperature, waits, trace, iter>>

-----------------------------------------------------------------------------
(* loop() *)

\* humidity kept from the earlier iteration when the read fails
ReadHumidityKeepsLast ==
    /\ pc = "readH"
    /\ \E v \in HumidityValues :
          /\ sensed' = [sensed EXCEPT !.humidity = v]
          /\ humidity' = IF isnan(v) THEN humidity ELSE v
    /\ line' = <<>>
    /\ waits' = <<>>
    /\ trace' = <<"readH">>
    /\ pc' = "readT"
    /\ UNCHANGED <<serialBaud, serialBegins, dhtBegins, temperature, out, iter>>

\* the failed humidity read reported at once, before the temperature read
ReadHumidityChecksFirst ==
    /\ pc = "readH"
    /\ \E v \in HumidityValues :
          /\ sensed' = [sensed EXCEPT !.humidity = v]
          /\ humidity' = v
          /\ pc' = IF isnan(v) THEN "errPrintln" ELSE "readT"
    /\ line' = <<>>
    /\ waits' = <<>>
    /\ trace' = <<"readH">>
    /\ UNCHANGED <<serialBaud, serialBegins, dhtBegins, temperature, out, iter>>

\* float humidity = dht.readHumidity();   the first statement of a call of loop()
ReadHumidity ==
    /\ pc = "readH"
    /\ \E v \in HumidityValues :
          /\ sensed' = [sensed EXCEPT !.humidity = v]
          /\ humidity' = v
    /\ line' = <<>>
    /\ waits' = <<>>
    /\ trace' = <<"readH">>
    /\ pc' = "readT"
    /\ UNCHANGED <<serialBaud, serialBegins, dhtBegins, temperature, out, iter>>

\* float temperature = dht.readTemperature();
ReadTemperature ==
    /\ pc = "readT"
    /\ \E v \in TemperatureValues :
          /\ sensed' = [sensed EXCEPT !.temperature = v]
          /\ temperature' = v
    /\ trace' = Append(trace, "readT")
    /\ pc' = "checkNaN"
    /\ UNCHANGED <<serialBaud, serialBegins, dhtBegins, humidity, out, line,
                   waits, iter>>

\* if (isnan(humidity) || isnan(temperature))
CheckNaN ==
    /\ pc = "checkNaN"
    /\ pc' = IF isnan(humidity) \/ isnan(temperature)
             THEN "errPrintln" ELSE "printHLabel"
    /\ trace' = Append(trace, "validate")
    /\ UNCHANGED <<serialBaud, serialBegins, dhtBegins, sensed, humidity,
                   temperature, out, line, waits, iter>>

\* the error text written with print, without the line end
ErrPrintNoNewline ==
    /\ pc = "errPrintln"
    /\ Emit(<<ErrorLine>>)
    /\ trace' = Append(trace, "emit")
    /\ pc' = "errDelay"
    /\ UNCHANGED <<serialBaud, serialBegins, dhtBegins, sensed, humidity,
                   temperature, waits, iter>>

\* Serial.println("Humidity or temperature read error");
ErrPrintln ==
    /\ pc = "errPrintln"
    /\ Emit(<<ErrorLine, CRLF>>)
    /\ trace' = Append(trace, "emit")
    /\ pc' = "errDelay"
    /\ UNCHANGED <<serialBaud, serialBegins, dhtBegins, sensed, humidity,
                   temperature, waits, iter>>

\* the return after the error delay left out: control falls into the prints
ErrDelayFallsThrough ==
    /\ pc = "errDelay"
    /\ waits' = Append(waits, ERR_DELAY_MS)
    /\ trace' = Append(trace, "wait")
    /\ pc' = "printHLabel"
    /\ UNCHANGED <<serialBaud, serialBegins, dhtBegins, sensed, humidity,
                   temperature, out, line, iter>>

\* the error path returns without the delay
ErrDelaySkipped ==
    /\ pc = "errDelay"
    /\ Return
    /\ UNCHANGED <<serialBaud, serialBegins, dhtBegins, sensed, humidity,
                   temperature, out, line, waits, trace>>

\* the sketch stops for good after a failed read
ErrDelayHalts ==
    /\ pc = "errDelay"
    /\ pc' = "halt"
    /\ UNCHANGED <<serialBaud, serialBegins, dhtBegins, sensed, humidity,
                   temperature, out, line, waits, trace, iter>>

\* delay(2000); return;
ErrDelay ==
    /\ pc = "errDelay"
    /\ waits' = Append(waits, ERR_DELAY_MS)
    /\ trace' = Append(trace, "wait")
    /\ Return
    /\ UNCHANGED <<serialBaud, serialBegins, dhtBegins, sensed, humidity,
                   temperature, out, line>>

\* Serial.print("Humidity: ");
PrintHumidityLabel ==
    /\ pc = "printHLabel"
    /\ Emit(<<"Humidity: ">>)
    /\ trace' = Append(trace, "emit")
    /\ pc' = "printH"
    /\ UNCHANGED <<serialBaud, serialBegins, dhtBegins, sensed, humidity,
                   temperature, waits, iter>>

\* the temperature printed in the humidity's place
PrintHumidityWrongValue ==
    /\ pc = "printH"
    /\ Emit(<<PrintFloat(temperature)>>)
    /\ trace' = Append(trace, "emit")
    /\ pc' = "printHUnit"
    /\ UNCHANGED <<serialBaud, serialBegins, dhtBegins, sensed, humidity,
                   temperature, waits, iter>>

\* Serial.print(humidity);
PrintHumidity ==
    /\ pc = "printH"
    /\ Emit(<<PrintFloat(humidity)>>)
    /\ trace' = Append(trace, "emit")
    /\ pc' = "printHUnit"
    /\ UNCHANGED <<serialBaud, serialBegins, dhtBegins, sensed, humidity,
                   temperature, waits, iter>>

\* Serial.print(" %\t");
PrintHumidityUnit ==
    /\ pc = "printHUnit"
    /\ Emit(<<" %\t">>)
    /\ trace' = Append(trace, "emit")
    /\ pc' = "printTLabel"
    /\ UNCHANGED <<serialBaud, serialBegins, dhtBegins, sensed, humidity,
                   temperature, waits, iter>>

\* Serial.print("Temperature: ");
PrintTemperatureLabel ==
    /\ pc = "printTLabel"
    /\ Emit(<<"Temperature: ">>)
    /\ trace' = Append(trace, "emit")
    /\ pc' = "printT"
    /\ UNCHANGED <<serialBaud, serialBegins, dhtBegins, sensed, humidity,
                   temperature, waits, iter>>

\* the temperature printed as an integer
PrintTemperatureAsInt ==
    /\ pc = "printT"
    /\ Emit(<<PrintAsInt(temperature)>>)
    /\ trace' = Append(trace, "emit")
    /\ pc' = "printTUnit"
    /\ UNCHANGED <<serialBaud, serialBegins, dhtBegins, sensed, humidity,
                   temperature, waits, iter>>

\* Serial.print(temperature);
PrintTemperature ==
    /\ pc = "printT"
    /\ Emit(<<PrintFloat(temperature)>>)
    /\ trace' = Append(trace, "emit")
    /\ pc' = "printTUnit"
    /\ UNCHANGED <<serialBaud, serialBegins, dhtBegins, sensed, humidity,
                   temperature, waits, iter>>

\* Serial.println(" *C");
PrintTemperatureUnit ==
    /\ pc = "printTUnit"
    /\ Emit(<<" *C", CRLF>>)
    /\ trace' = Append(trace, "emit")
    /\ pc' = "okDelay"
    /\ UNCHANGED <<serialBaud, serialBegins, dhtBegins, sensed, humidity,
                   temperature, waits, iter>>

\* delay(2000);  and loop() returns
OkDelay ==
    /\ pc = "okDelay"
    /\ waits' = Append(waits, OK_DELAY_MS)
    /\ trace' = Append(trace, "wait")
    /\ Return
    /\ UNCHANGED <<serialBaud, serialBegins, dhtBegins, sensed, humidity,
                   temperature, out, line>>

-----------------------------------------------------------------------------

Next ==
    \/ SetupSerialBegin
    \/ SetupDhtBegin
    \/ SetupPrintln
    \/ ReadHumidity
    \/ ReadTemperature
    \/ CheckNaN
    \/ ErrPrintln
    \/ ErrDelay
    \/ PrintHumidityLabel
    \/ PrintHumidity
    \/ PrintHumidityUnit
    \/ PrintTemperatureLabel
    \/ PrintTemperature
    \/ PrintTemperatureUnit
    \/ OkDelay

Spec == Init /\ [][Next]_vars

\* The core runs the sketch without pause: the next statement is always taken.
LiveSpec == Init /\ [][Next]_vars /\ WF_vars(Next)

-----------------------------------------------------------------------------
(* Vocabulary of the properties *)

Range(s) == {s[i] : i \in 1..Len(s)}

IsPrefix(s, t) == Len(s) <= Len(t) /\ s = SubSeq(t, 1, Len(s))

Last(s) == s[Len(s)]

NumLines(s) == Cardinality({i \in 1..Len(s) : s[i] = CRLF})

InSetup == pc \in {"serialBegin", "dhtBegin", "startupPrintln"}

\* A call of loop() has just returned: line, waits, trace, sensed and the two
\* locals are those of the iteration that ended.
IterationDone == pc = "readH" /\ iter > 0

\* Both reads of the current iteration have been made.
BothRead == pc \notin {"serialBegin", "dhtBegin", "startupPrintln", "readH", "readT"}
            \/ IterationDone

Failed == isnan(humidity) \/ isnan(temperature)

ErrorOutput == <<ErrorLine, CRLF>>

MeasurementOutput(h, t) ==
    <<"Humidity: ", PrintFloat(h), " %\t", "Temperature: ", PrintFloat(t), " *C", CRLF>>

\* What an iteration writes, as a function of the two values read in it.
IterationOutput(h, t) ==
    IF isnan(h) \/ isnan(t) THEN ErrorOutput ELSE MeasurementOutput(h, t)

IsDigit(c) == c \in {"0", "1", "2", "3", "4", "5", "6", "7", "8", "9"}

\* s ends with a '.' and exactly two digits after it
TwoDecimals(s) ==
    /\ Len(s) >= 4
    /\ SubSeq(s, Len(s) - 2, Len(s) - 2) = "."
    /\ IsDigit(SubSeq(s, Len(s) - 1, Len(s) - 1))
    /\ IsDigit(SubSeq(s, Len(s), Len(s)))
    /\ \A i \in 1..(Len(s) - 3) : SubSeq(s, i, i) # "."

-----------------------------------------------------------------------------
(* C1 *)

\* C1: in an iteration where the humidity, the temperature or both are NaN,
\* the iteration's output is nothing until the error line is written and then
\* exactly the error line (the same one in the three cases); the iteration
\* never reaches a statement of the numeric line and ends with the error line
\* as its whole output.
C1_ErrorLineOnly ==
    (BothRead /\ Failed) =>
        /\ line \in {<<>>, ErrorOutput}
        /\ pc \in {"checkNaN", "errPrintln", "errDelay", "readH"}
        /\ pc \in {"errDelay", "readH"} => line = ErrorOutput

C1_Witness ==
    /\ IterationDone
    /\ ~isnan(humidity)
    /\ isnan(temperature)
    /\ line = ErrorOutput

(* C2 *)

\* C2: in an iteration where both readings are defined, the output grows as
\* "Humidity: ", the humidity, " %\t", "Temperature: ", the temperature, " *C",
\* line end, in that order, is exactly that sequence when the iteration ends,
\* and holds no error line.
C2_MeasurementLine ==
    (BothRead /\ ~Failed) =>
        /\ IsPrefix(line, MeasurementOutput(humidity, temperature))
        /\ pc \in {"okDelay", "readH"} => line = MeasurementOutput(humidity, temperature)
        /\ ErrorLine \notin Range(line)
        /\ pc \notin {"errPrintln", "errDelay"}

C2_Witness ==
    /\ IterationDone
    /\ humidity = F(4013)
    /\ temperature = F(-346)
    /\ line = <<"Humidity: ", "40.13", " %\t", "Temperature: ", "-3.46", " *C", CRLF>>

(* C3 *)

\* C3: the loop never stops: in every reachable state some statement can run,
\* and from every state, also after an error line and after consecutive failed
\* iterations, a new humidity read is eventually made.
C3_LoopNeverStops ==
    /\ [](ENABLED <<Next>>_vars)
    /\ []<><<ReadHumidity>>_vars
    /\ (pc = "errDelay") ~> (pc = "readT")

\* two failed iterations in a row, and the next read attempt has been made
C3_Witness ==
    /\ iter = 2
    /\ out = <<StartupLine, CRLF>> \o ErrorOutput \o ErrorOutput
    /\ pc = "readT"
    /\ trace = <<"readH">>

(* C4 *)

\* C4: an iteration waits exactly once, 2000 ms on either path; the wait is
\* its last step, after its complete output line, and the next iteration's
\* reads come after it.
C4_OneFixedWait ==
    /\ Len(waits) <= 1
    /\ waits # <<>> =>
          /\ waits = <<2000>>
          /\ IterationDone
          /\ line # <<>> /\ Last(line) = CRLF
          /\ Len(trace) >= 2
          /\ trace[Len(trace)] = "wait" /\ trace[Len(trace) - 1] = "emit"
    /\ IterationDone => waits = <<2000>>

\* an iteration that failed and one that succeeded have both ended with the wait
C4_Witness ==
    /\ IterationDone
    /\ iter = 2
    /\ ErrorLine \in Range(out)
    /\ "Humidity: " \in Range(out)
    /\ waits = <<2000>>

(* C5 *)

\* C5: the startup line is written once, by setup(): the output is empty
\* before it, begins with it afterwards, and no later output, of any
\* iteration of loop(), holds it again.
C5_StartupOnce ==
    /\ InSetup => out = <<>>
    /\ ~InSetup =>
          /\ Len(out) >= 2
          /\ out[1] = StartupLine
          /\ out[2] = CRLF
          /\ \A i \in 3..Len(out) : out[i] # StartupLine
    /\ trace # <<>> => StartupLine \notin Range(line)

C5_Witness ==
    /\ IterationDone
    /\ iter = 2
    /\ out[1] = StartupLine
    /\ ErrorLine \in Range(out)
    /\ "Humidity: " \in Range(out)

(* C6 *)

\* C6: the output and the delay of an iteration are a function of the two
\* values the sensor returned in that iteration alone, whatever the earlier
\* iterations read.
C6_NoCarriedState ==
    IterationDone =>
        /\ line = IterationOutput(sensed.humidity, sensed.temperature)
        /\ waits = <<2000>>

\* a failed humidity read right after an iteration that measured
C6_Witness ==
    /\ IterationDone
    /\ iter = 2
    /\ Len(out) = 11
    /\ out[3] = "Humidity: "
    /\ isnan(sensed.humidity)
    /\ ~isnan(sensed.temperature)
    /\ line = ErrorOutput

(* C7 *)

\* C7: readings 55.0 and 22.0 give the line
\* "Humidity: 55.00 %\tTemperature: 22.00 *C"; every defined value is
\* written with exactly two digits after the decimal point.
C7_TwoDecimals ==
    /\ (IterationDone /\ sensed = [humidity |-> F(5500), temperature |-> F(2200)]) =>
          /\ Len(line) = 7
          /\ Concat(SubSeq(line, 1, 6)) = "Humidity: 55.00 %\tTemperature: 22.00 *C"
          /\ line[7] = CRLF
    /\ (IterationDone /\ ~isnan(sensed.humidity) /\ ~isnan(sensed.temperature)) =>
          /\ Len(line) = 7
          /\ TwoDecimals(line[2])
          /\ TwoDecimals(line[5])

C7_Witness ==
    /\ IterationDone
    /\ sensed = [humidity |-> F(5500), temperature |-> F(2200)]
    /\ Concat(line) = "Humidity: 55.00 %\tTemperature: 22.00 *C\r\n"

(* C8 *)

\* C8: the steps of an iteration are read humidity, read temperature,
\* validate, emit, wait, in that order; both reads come before the validation
\* and before any output, also when the humidity read returned NaN.
C8_StepOrder ==
    /\ Len(trace) >= 1 => trace[1] = "readH"
    /\ Len(trace) >= 2 => trace[2] = "readT"
    /\ Len(trace) >= 3 => trace[3] = "validate"
    /\ Len(trace) >= 4 => trace[4] = "emit"
    /\ \A i \in 5..Len(trace) :
          /\ trace[i] \in {"emit", "wait"}
          /\ trace[i] = "wait" => i = Len(trace)
    /\ IterationDone => Len(trace) >= 5 /\ Last(trace) = "wait"
    /\ (line # <<>> /\ trace # <<>>) => Len(trace) >= 4
    /\ pc \in {"checkNaN", "errPrintln", "errDelay"} =>
          (Len(trace) >= 2 /\ trace[1] = "readH" /\ trace[2] = "readT")

\* the humidity read failed and the temperature read was made all the same
C8_Witness ==
    /\ pc = "errDelay"
    /\ isnan(sensed.humidity)
    /\ sensed.temperature = F(2200)
    /\ trace = <<"readH", "readT", "validate", "emit">>

(* C9 *)

\* C9: a completed iteration has written exactly one complete line, the
\* measurement line or the error line; between calls, after n iterations, the
\* output holds n + 1 lines and the first is the startup line.
C9_OneLinePerIteration ==
    /\ IterationDone =>
          /\ NumLines(line) = 1
          /\ Last(line) = CRLF
          /\ \/ line = ErrorOutput
             \/ /\ line = MeasurementOutput(humidity, temperature)
                /\ line # ErrorOutput
    /\ pc = "readH" =>
          /\ NumLines(out) = iter + 1
          /\ Last(out) = CRLF
          /\ out[1] = StartupLine

C9_Witness ==
    /\ IterationDone
    /\ iter = 2
    /\ NumLines(out) = 3
    /\ out[3] = ErrorLine
    /\ out[5] = "Humidity: "

(* C10 *)

\* C10: Serial.begin(9600) and dht.begin() run once each; the port is open at
\* 9600 baud before anything is written, the sensor is started before the
\* first read, and the first read is made with no wait before it.
C10_InitBeforeUse ==
    /\ serialBegins <= 1
    /\ dhtBegins <= 1
    /\ (out # <<>> \/ line # <<>>) => (serialBaud = 9600 /\ serialBegins = 1)
    /\ trace # <<>> => (dhtBegins = 1 /\ serialBegins = 1)
    /\ ~InSetup => (dhtBegins = 1 /\ serialBegins = 1 /\ serialBaud = 9600)
    /\ (iter = 0 /\ pc \in {"serialBegin", "dhtBegin", "startupPrintln", "readH", "readT"})
          => waits = <<>>

\* the first read of the run, made right after setup()
C10_Witness ==
    /\ pc = "readT"
    /\ iter = 0
    /\ trace = <<"readH">>
    /\ serialBaud = 9600
    /\ dhtBegins = 1
    /\ out = <<StartupLine, CRLF>>
    /\ waits = <<>>

====
